---- MODULE Spec2Model ----
(***************************************************************************)
(* Marketplace conversion-funnel analysis scripts.                         *)
(*                                                                         *)
(* The state is the three exported event logs (the CSV snapshots), the     *)
(* on-disk cache database marketplace_analysis.db, the output of the last  *)
(* script run, and the state of the interactive SQL prompt.  Every batch   *)
(* script is single-threaded and runs to completion, so one script run is  *)
(* one action; the SQL prompt is one action per iteration of its loop.     *)
(*                                                                         *)
(* Rows are records.  Only the columns the scripts read are kept:          *)
(*   search event : id (merged_amplitude_id), t (event_time),              *)
(*                  cat (the categorical column being segmented),          *)
(*                  bot (is_bot)                                           *)
(*   listing view : id, t, pos (search_position), listing (listing_id),    *)
(*                  bot                                                    *)
(*   reservation  : id (renter_user_id), t (created_at), listing, paid     *)
(*                  (successful_payment_collected_at is present)           *)
(* A file is a set of rows: every exported row carries its own event id,   *)
(* so no two rows of a file are equal.  Rates are exact rationals          *)
(* <<numerator, denominator>> in lowest terms with denominator > 0.        *)
(***************************************************************************)
EXTENDS Integers, Sequences, FiniteSets, TLC

VARIABLES search_events, click_events, reservations, db, table_copies,
          rebuilt, report,
          variant, pc, conn, stdin, last_input, printed, executed, applied, closes

vars == <<search_events, click_events, reservations, db, table_copies,
          rebuilt, report,
          variant, pc, conn, stdin, last_input, printed, executed, applied, closes>>

files == <<search_events, click_events, reservations>>
cache == <<db, table_copies>>
prompt == <<variant, pc, conn, stdin, last_input, printed, executed, applied, closes>>

----------------------------------------------------------------------------
(* Bounds of the model. *)

MaxId == 2
MaxTime == 2
MaxRows == 4

Ids == 1..MaxId
Times == 1..MaxTime

(* A missing value of a column (pandas NaN). *)
NaN == "NaN"

----------------------------------------------------------------------------
(* Exact rational arithmetic for the rates. *)

RECURSIVE GCD(_, _)
GCD(a, b) == IF b = 0 THEN a ELSE GCD(b, a % b)

Rat(n, d) == LET g == GCD(n, d) IN <<n \div g, d \div g>>

Zero == <<0, 1>>
Hundred == <<100, 1>>

RatLeq(x, y) == x[1] * y[2] <= y[1] * x[2]

RatSub(x, y) == Rat(x[1] * y[2] - y[1] * x[2], x[2] * y[2])

(* n / d * 100 for d > 0 *)
Pct(n, d) == Rat(100 * n, d)

(* (n / d * 100) if d > 0 else 0 *)
GuardedPct(n, d) == IF d > 0 THEN Pct(n, d) ELSE Zero

----------------------------------------------------------------------------
(* Rows and columns. *)

SearchRow(i, t, c, b) == [id |-> i, t |-> t, cat |-> c, bot |-> b]
ClickRow(i, t, p, l, b) == [id |-> i, t |-> t, pos |-> p, listing |-> l, bot |-> b]
ReservationRow(i, t, l, p) == [id |-> i, t |-> t, listing |-> l, paid |-> p]

(* set(df[col].unique()) for the id column *)
UniqueIds(rows) == {r.id : r \in rows}

(* df[col].nunique() for the id column *)
NUnique(rows) == Cardinality(UniqueIds(rows))

(* All sets of at most k elements of S. *)
RECURSIVE SubsetsUpTo(_, _)
SubsetsUpTo(S, k) ==
    IF k = 0 THEN {{}}
    ELSE LET P == SubsetsUpTo(S, k - 1)
         IN  P \cup {p \cup {x} : p \in P, x \in S}

(* The files of a run: rows drawn from the given row kinds, at most        *)
(* MaxRows rows in the three files together.                               *)
Tagged(SK, CK, RK) ==
    ({"s"} \X SK) \cup ({"c"} \X CK) \cup ({"r"} \X RK)

FilesFrom(SK, CK, RK) ==
    {<<{x[2] : x \in {y \in p : y[1] = "s"}},
       {x[2] : x \in {y \in p : y[1] = "c"}},
       {x[2] : x \in {y \in p : y[1] = "r"}}>> :
        p \in SubsetsUpTo(Tagged(SK, CK, RK), MaxRows)}

Raised(script, exc) == [script |-> script, status |-> exc]

NoReport == [script |-> "none", status |-> "none"]

(* A script is started from the shell: no other process of the repository  *)
(* is running, and the new process has printed nothing yet.                *)
Idle == report = NoReport /\ pc = "not_started"

(* The process of a finished script run exits; its output is not part of   *)
(* the state the next run starts from.                                     *)
ProcessExit ==
    /\ report # NoReport
    /\ report' = NoReport
    /\ rebuilt' = "no"
    /\ UNCHANGED <<files, cache, prompt>>

----------------------------------------------------------------------------
(* conversion_funnel_analysis.py *)

UserSearchesStrictlyBefore(se, reservation) ==
    {s \in se : s.id = reservation.id /\ s.t < reservation.t}

UserSearches(se, reservation) ==
    {s \in se : s.id = reservation.id /\ s.t <= reservation.t}

UserClicks(ce, reservation) ==
    {c \in ce : c.id = reservation.id /\ c.t <= reservation.t}

TimeWindowedFunnelOnePerUser(se, ce, rs) ==
    LET counted == {r \in rs : Cardinality(UserSearches(se, r)) > 0
                               /\ Cardinality(UserClicks(ce, r)) > 0}
    IN  {r \in counted : r = CHOOSE x \in counted : x.id = r.id}

(* for _, reservation in reservations.iterrows(): ... funnel_users.append  *)
TimeWindowedFunnel(se, ce, rs) ==
    {r \in rs : Cardinality(UserSearches(se, r)) > 0
                /\ Cardinality(UserClicks(ce, r)) > 0}

SearchedOrClicked(searchers, clickers) == searchers \cup clickers

SearchedAndClicked(searchers, clickers) == searchers \cap clickers

SearchedClickedReserved(searchers, clickers, reservers) ==
    SearchedAndClicked(searchers, clickers) \cap reservers

analyze_search_to_reservation_conversion(se, ce, rs) ==
    LET unique_searchers == NUnique(se)
        unique_clickers == NUnique(ce)
        unique_reservers == NUnique(rs)
        searchers == UniqueIds(se)
        clickers == UniqueIds(ce)
        reservers == UniqueIds(rs)
        searched_and_clicked == SearchedAndClicked(searchers, clickers)
        searched_clicked_reserved ==
            SearchedClickedReserved(searchers, clickers, reservers)
        funnel_users == TimeWindowedFunnel(se, ce, rs)
    IN  IF unique_searchers = 0
        THEN Raised("conversion_funnel_analysis", "ZeroDivisionError")
        ELSE [script |-> "conversion_funnel_analysis",
              status |-> "ok",
              total_searchers |-> unique_searchers,
              total_clickers |-> unique_clickers,
              total_reservers |-> unique_reservers,
              searched_and_clicked |-> Cardinality(searched_and_clicked),
              searched_clicked_reserved |-> Cardinality(searched_clicked_reserved),
              funnel_users |-> Cardinality(funnel_users),
              search_to_click_rate |->
                  Pct(Cardinality(searched_and_clicked), unique_searchers),
              click_to_reserve_rate |->
                  IF Cardinality(searched_and_clicked) > 0
                  THEN Pct(Cardinality(searched_clicked_reserved),
                           Cardinality(searched_and_clicked))
                  ELSE Zero,
              search_to_reserve_rate |->
                  Pct(Cardinality(searched_clicked_reserved), unique_searchers),
              locals |-> [searched_and_clicked |-> searched_and_clicked,
                          searched_clicked_reserved |-> searched_clicked_reserved,
                          funnel_users |-> funnel_users]]

RunConversionFunnelAnalysis ==
    /\ Idle
    /\ report' = analyze_search_to_reservation_conversion(
                     search_events, click_events, reservations)
    /\ UNCHANGED <<files, cache, rebuilt, prompt>>

----------------------------------------------------------------------------
(* pandas helpers shared by the segmented analyses. *)

Cats == {"a", "b"}
CatValues == Cats \cup {NaN}

MaxMinCount == 2
MinCounts == 1..MaxMinCount

(* df[col].unique(): the distinct values of the column, NaN included.  The *)
(* values come in order of first appearance in the file; a file being a    *)
(* set of rows here, every order is possible.                              *)
UniqueCats(df) == {r.cat : r \in df}

RECURSIVE Perms(_)
Perms(S) ==
    IF S = {} THEN {<<>>}
    ELSE UNION {{<<x>> \o p : p \in Perms(S \ {x})} : x \in S}

(* Insertion of row r into an already sorted sequence, behind the rows it  *)
(* ties with (the sort of a short column is a stable insertion sort).      *)
RECURSIVE InsertSorted(_, _, _, _)
InsertSorted(sorted, r, key, ascending) ==
    IF sorted = <<>> THEN <<r>>
    ELSE LET h == Head(sorted)
             before == IF ascending THEN RatLeq(h[key], r[key])
                                    ELSE RatLeq(r[key], h[key])
         IN  IF before
             THEN <<h>> \o InsertSorted(Tail(sorted), r, key, ascending)
             ELSE <<r>> \o sorted

RECURSIVE SortRows(_, _, _)
SortRows(rows, key, ascending) ==
    IF rows = <<>> THEN <<>>
    ELSE InsertSorted(SortRows(SubSeq(rows, 1, Len(rows) - 1), key, ascending),
                      rows[Len(rows)], key, ascending)

sort_values_unsorted(results, key, ascending) ==
    IF results = <<>>
    THEN [status |-> "KeyError", rows |-> <<>>]
    ELSE [status |-> "ok", rows |-> results]

(* pd.DataFrame(results).sort_values(key, ascending=...): a frame built    *)
(* from an empty list has no columns, and sorting it raises KeyError.      *)
sort_values(results, key, ascending) ==
    IF results = <<>>
    THEN [status |-> "KeyError", rows |-> <<>>]
    ELSE [status |-> "ok", rows |-> SortRows(results, key, ascending)]

(* The users of one category: set(df[df[col] == category][id].unique()).   *)
(* A comparison with NaN is false for every row.                           *)
CategoryUsers(df, category) ==
    IF category = NaN THEN {}
    ELSE {r.id : r \in {x \in df : x.cat = category}}

(* The loop shared by analyze_by_category, analyze_non_conversion_by_-     *)
(* category and analyze_never_clicked_by_category: one result row per      *)
(* non-missing category that has at least min_count users.  `users` is     *)
(* the column funnel_users / non_converting_users / never_clicked_users    *)
(* and `rate` the column conversion_rate / non_conversion_rate /           *)
(* never_clicked_rate of the function at hand.                             *)
CategoryRow(df, target, category) ==
    LET category_users == CategoryUsers(df, category)
        total_searchers == Cardinality(category_users)
        in_category == Cardinality(category_users \cap target)
    IN  [category |-> category,
         total_searchers |-> total_searchers,
         users |-> in_category,
         rate |-> GuardedPct(in_category, total_searchers)]

MeetsMinCountStrictly(row, min_count) == row.total_searchers > min_count

MeetsMinCount(row, min_count) == row.total_searchers >= min_count

CategoryLoop(df, target, min_count, order) ==
    SelectSeq([i \in 1..Len(order) |-> CategoryRow(df, target, order[i])],
              LAMBDA row : row.category # NaN /\ MeetsMinCount(row, min_count))

FunnelUsersSkippingClicks(searchers, clickers, reservers) ==
    searchers \cap reservers

FunnelUsers(searchers, clickers, reservers) ==
    (searchers \cap clickers) \cap reservers

----------------------------------------------------------------------------
(* search_characteristics_analysis.py *)

analyze_by_category(df, funnel_users, min_count, order) ==
    sort_values(CategoryLoop(df, funnel_users, min_count, order), "rate", FALSE)

analyze_search_characteristics(se, ce, rs, min_count, order) ==
    LET searchers == UniqueIds(se)
        clickers == UniqueIds(ce)
        reservers == UniqueIds(rs)
        funnel_users == FunnelUsers(searchers, clickers, reservers)
        analysis == analyze_by_category(se, funnel_users, min_count, order)
    IN  IF analysis.status # "ok"
        THEN Raised("search_characteristics_analysis", analysis.status)
        ELSE [script |-> "search_characteristics_analysis",
              status |-> "ok",
              min_count |-> min_count,
              rows |-> analysis.rows,
              locals |-> [funnel_users |-> funnel_users]]

RunSearchCharacteristics ==
    /\ Idle
    /\ \E min_count \in MinCounts, order \in Perms(UniqueCats(search_events)) :
          report' = analyze_search_characteristics(
                        search_events, click_events, reservations, min_count, order)
    /\ UNCHANGED <<files, cache, rebuilt, prompt>>

----------------------------------------------------------------------------
(* non_converting_search_analysis.py *)

analyze_non_conversion_by_category(df, non_converting_searchers, min_count, order) ==
    sort_values(CategoryLoop(df, non_converting_searchers, min_count, order),
                "rate", FALSE)

analyze_never_clicked_by_category(df, searchers_who_never_clicked, min_count, order) ==
    sort_values(CategoryLoop(df, searchers_who_never_clicked, min_count, order),
                "rate", FALSE)

ClickersWhoNeverReserved(searchers, clickers, reservers) == clickers \ reservers

ClickDropOffPopulation(searchers, clickers) == clickers

analyze_non_converting_searches(se, ce, rs, min_count, order) ==
    LET script == "non_converting_search_analysis"
        searchers == UniqueIds(se)
        clickers == UniqueIds(ce)
        reservers == UniqueIds(rs)
        funnel_users == FunnelUsers(searchers, clickers, reservers)
        non_converting_searchers == searchers \ funnel_users
        analysis == analyze_non_conversion_by_category(
                        se, non_converting_searchers, min_count, order)
        searchers_who_never_clicked == searchers \ clickers
        clickers_who_never_reserved ==
            ClickersWhoNeverReserved(searchers, clickers, reservers)
        drop_off_population == ClickDropOffPopulation(searchers, clickers)
        never_clicked == analyze_never_clicked_by_category(
                             se, searchers_who_never_clicked, min_count, order)
    IN  IF Cardinality(searchers) = 0 THEN Raised(script, "ZeroDivisionError")
        ELSE IF analysis.status # "ok" THEN Raised(script, analysis.status)
        ELSE IF Cardinality(drop_off_population) = 0
             THEN Raised(script, "ZeroDivisionError")
        ELSE IF never_clicked.status # "ok" THEN Raised(script, never_clicked.status)
        ELSE [script |-> script,
              status |-> "ok",
              min_count |-> min_count,
              non_conversion_rate |->
                  Pct(Cardinality(non_converting_searchers), Cardinality(searchers)),
              rows |-> analysis.rows,
              search_to_click_drop_off_rate |->
                  Pct(Cardinality(searchers_who_never_clicked), Cardinality(searchers)),
              click_to_reserve_drop_off_rate |->
                  Pct(Cardinality(clickers_who_never_reserved),
                      Cardinality(drop_off_population)),
              never_clicked_rows |-> never_clicked.rows,
              locals |-> [funnel_users |-> funnel_users,
                          clickers_who_never_reserved |-> clickers_who_never_reserved,
                          drop_off_population |-> drop_off_population]]

RunNonConvertingSearches ==
    /\ Idle
    /\ \E min_count \in MinCounts, order \in Perms(UniqueCats(search_events)) :
          report' = analyze_non_converting_searches(
                        search_events, click_events, reservations, min_count, order)
    /\ UNCHANGED <<files, cache, rebuilt, prompt>>

----------------------------------------------------------------------------
(* conversion_by_channel_analysis.py; conversion_by_source_channel_-       *)
(* analysis.py runs the same loop over the source-channel column.          *)

ChannelRowAllClickers(se, ce, rs, channel) ==
    LET channel_search_users == CategoryUsers(se, channel)
        channel_click_users == UniqueIds(ce)
        channel_reserve_users ==
            UniqueIds({r \in rs : r.id \in channel_search_users})
        total_searchers == Cardinality(channel_search_users)
        searched_and_clicked ==
            Cardinality(channel_search_users \cap channel_click_users)
        searched_clicked_reserved ==
            Cardinality((channel_search_users \cap channel_click_users)
                            \cap channel_reserve_users)
    IN  [channel |-> channel,
         total_searchers |-> total_searchers,
         total_clickers |-> Cardinality(channel_click_users),
         total_reservers |-> Cardinality(channel_reserve_users),
         searched_and_clicked |-> searched_and_clicked,
         searched_clicked_reserved |-> searched_clicked_reserved,
         search_to_click_rate |-> GuardedPct(searched_and_clicked, total_searchers),
         click_to_reserve_rate |->
             GuardedPct(searched_clicked_reserved, searched_and_clicked),
         search_to_reserve_rate |->
             GuardedPct(searched_clicked_reserved, total_searchers)]

ChannelRow(se, ce, rs, channel) ==
    LET channel_search_users == CategoryUsers(se, channel)
        channel_click_users ==
            UniqueIds({c \in ce : c.id \in channel_search_users})
        channel_reserve_users ==
            UniqueIds({r \in rs : r.id \in channel_search_users})
        total_searchers == Cardinality(channel_search_users)
        searched_and_clicked ==
            Cardinality(channel_search_users \cap channel_click_users)
        searched_clicked_reserved ==
            Cardinality((channel_search_users \cap channel_click_users)
                            \cap channel_reserve_users)
    IN  [channel |-> channel,
         total_searchers |-> total_searchers,
         total_clickers |-> Cardinality(channel_click_users),
         total_reservers |-> Cardinality(channel_reserve_users),
         searched_and_clicked |-> searched_and_clicked,
         searched_clicked_reserved |-> searched_clicked_reserved,
         search_to_click_rate |-> GuardedPct(searched_and_clicked, total_searchers),
         click_to_reserve_rate |->
             GuardedPct(searched_clicked_reserved, searched_and_clicked),
         search_to_reserve_rate |->
             GuardedPct(searched_clicked_reserved, total_searchers)]

analyze_conversion_by_channel(se, ce, rs, channels) ==
    LET results == [i \in 1..Len(channels) |-> ChannelRow(se, ce, rs, channels[i])]
        results_df == sort_values(results, "search_to_reserve_rate", FALSE)
    IN  IF results_df.status # "ok"
        THEN Raised("conversion_by_channel_analysis", results_df.status)
        ELSE [script |-> "conversion_by_channel_analysis",
              status |-> "ok",
              rows |-> results_df.rows]

RunConversionByChannel ==
    /\ Idle
    /\ \E channels \in Perms(UniqueCats(search_events)) :
          report' = analyze_conversion_by_channel(
                        search_events, click_events, reservations, channels)
    /\ UNCHANGED <<files, cache, rebuilt, prompt>>

----------------------------------------------------------------------------
(* The cache database marketplace_analysis.db.                             *)
(*   "absent" : the file does not exist                                    *)
(*   "empty"  : the file exists and holds no table (sqlite3.connect        *)
(*              creates the file)                                          *)
(*   "csv"    : the four tables were loaded with the csv module: every     *)
(*              column is TEXT, is_bot holds 'True' / 'False', a missing   *)
(*              field is the empty string                                  *)
(*   "pandas" : the four tables were loaded with DataFrame.to_sql: is_bot  *)
(*              is INTEGER 0 / 1, a missing timestamp is NULL              *)
(* table_copies counts how often every line of a file is stored in its     *)
(* table, and rebuilt records whether the running process has loaded the   *)
(* tables itself: "no", "created" (there were no tables) or "replaced"     *)
(* (the tables of an earlier run were there).                              *)
(* The input files do not change, so the rows of a loaded table are the    *)
(* rows of its file in the representation of the loader.                   *)

DbStates == {"absent", "empty", "csv", "pandas"}

Loaded(d) == d \in {"csv", "pandas"}

(* sqlite3.connect('marketplace_analysis.db') *)
Connect(d) == IF d = "absent" THEN "empty" ELSE d

(* ... WHERE is_bot = 'False': the text 'False' equals no INTEGER value *)
WhereIsBotFalseText(d, rows) ==
    IF d = "csv" THEN {r \in rows : ~r.bot} ELSE {}

WhereIsBotZeroCoercing(d, rows) ==
    IF Loaded(d) THEN {r \in rows : ~r.bot} ELSE {}

(* ... WHERE is_bot = 0: the number 0, compared as text '0' with a TEXT    *)
(* column, equals neither 'True' nor 'False'                               *)
WhereIsBotZero(d, rows) ==
    IF d = "pandas" THEN {r \in rows : ~r.bot} ELSE {}

(* successful_payment_collected_at IS NOT NULL: the csv loader stores a    *)
(* missing timestamp as '', which is not NULL                              *)
PaymentNotNull(d, rows) ==
    IF d = "csv" THEN rows ELSE {r \in rows : r.paid}

(* What a load does to the tables that are there. *)
LoadKind(d) == IF Loaded(d) THEN "replaced" ELSE "created"

(* os.path.exists('marketplace_analysis.db') *)
os_path_exists(d) == d # "absent"

(* The loaders.  table_copies is the number of times every line of a CSV   *)
(* file is stored in its table (0 while the tables do not exist).          *)

(* DROP TABLE IF EXISTS, CREATE TABLE, then one INSERT per line of the     *)
(* file (funnel_analysis.py, simple_sql.py, create_charts.py)              *)
drop_create_insert(copies) ==
    LET dropped == 0
    IN  dropped + 1

to_sql_append(copies) == copies + 1

(* DataFrame.to_sql(name, conn, if_exists='replace', index=False)          *)
(* (run_sql_analysis.py, conversion_analysis.py, interactive_sql.py)       *)
to_sql_replace(copies) ==
    LET replaced == 0
    IN  replaced + 1

(* A run of create_database() while a CSV file cannot be opened.  The     *)
(* scripts check os.path.exists first, so this is a run on a missing       *)
(* cache file; d is the cache file the failed run leaves behind.           *)
(* simple_sql.py and create_charts.py call sqlite3.connect before the      *)
(* first open(): the file is created, FileNotFoundError is raised outside  *)
(* any try and nothing is committed.  interactive_sql.py reads the CSV     *)
(* files before it connects and leaves no file.                            *)
create_database_missing_csv(script, d) ==
    /\ Idle
    /\ ~os_path_exists(db)
    /\ db' = d
    /\ report' = Raised(script, "FileNotFoundError")
    /\ UNCHANGED <<files, table_copies, rebuilt, prompt>>

NaNRate == <<0, 0>>
NotAvailable == <<-1, 0>>

(* The basic funnel query of funnel_analysis.py and run_sql_analysis.py:   *)
(* COUNT(DISTINCT ...) over the cleaned searches LEFT JOINed with the      *)
(* cleaned views and the reservations on the actor id.                     *)
FunnelQuery(d, cleaned_search_events, cleaned_listing_views, cleaned_reservations) ==
    LET s == UniqueIds(cleaned_search_events)
    IN  [total_searchers |-> Cardinality(s),
         total_viewers |-> Cardinality(s \cap UniqueIds(cleaned_listing_views)),
         total_reservers |-> Cardinality(s \cap UniqueIds(cleaned_reservations)),
         total_payers |->
             Cardinality(s \cap UniqueIds(PaymentNotNull(d, cleaned_reservations)))]

----------------------------------------------------------------------------
(* funnel_analysis.py: reloads the four tables with the csv module, then   *)
(* runs the funnel query with is_bot = 'False'.                            *)

funnel_analysis(se, ce, rs) ==
    LET d == "csv"
        result == FunnelQuery(d, WhereIsBotFalseText(d, se),
                              WhereIsBotFalseText(d, ce), rs)
        searchers == result.total_searchers
        viewers == result.total_viewers
        reservers == result.total_reservers
        payers == result.total_payers
    IN  [script |-> "funnel_analysis",
         status |-> "ok",
         searchers |-> searchers,
         viewers |-> viewers,
         reservers |-> reservers,
         payers |-> payers,
         search_to_view |-> GuardedPct(viewers, searchers),
         view_to_reserve |-> GuardedPct(reservers, viewers),
         reserve_to_pay |-> GuardedPct(payers, reservers),
         overall |-> GuardedPct(payers, searchers),
         dropped_after_searching |-> searchers - viewers,
         dropped_after_viewing |-> viewers - reservers,
         dropped_after_reserving |-> reservers - payers]

RunFunnelAnalysis ==
    /\ Idle
    /\ db' = "csv"
    /\ table_copies' = drop_create_insert(table_copies)
    /\ rebuilt' = LoadKind(db)
    /\ report' = funnel_analysis(search_events, click_events, reservations)
    /\ UNCHANGED <<files, prompt>>

----------------------------------------------------------------------------
(* run_sql_analysis.py: create_database replaces the four tables with      *)
(* DataFrame.to_sql, run_sql_queries runs the funnel query with            *)
(* is_bot = 0.  The counts come back as numpy integers: a division by a    *)
(* zero count gives nan and a warning, no exception.  (The six queries     *)
(* that follow print per-segment tables of columns this model does not     *)
(* keep.)                                                                  *)

NumpyPct(n, d) == IF d = 0 THEN NaNRate ELSE Pct(n, d)

run_sql_queries(d, se, ce, rs) ==
    LET result1 == FunnelQuery(d, WhereIsBotZero(d, se), WhereIsBotZero(d, ce), rs)
        searchers == result1.total_searchers
        viewers == result1.total_viewers
        reservers == result1.total_reservers
        payers == result1.total_payers
    IN  [script |-> "run_sql_analysis",
         status |-> "ok",
         total_searchers |-> searchers,
         total_viewers |-> viewers,
         total_reservers |-> reservers,
         total_payers |-> payers,
         search_to_view |-> NumpyPct(viewers, searchers),
         view_to_reserve |->
             IF viewers > 0 THEN NumpyPct(reservers, viewers) ELSE NotAvailable,
         reserve_to_pay |->
             IF reservers > 0 THEN NumpyPct(payers, reservers) ELSE NotAvailable,
         overall |-> NumpyPct(payers, searchers)]

RunSqlAnalysis ==
    /\ Idle
    /\ db' = "pandas"
    /\ table_copies' = to_sql_replace(table_copies)
    /\ rebuilt' = LoadKind(db)
    /\ report' = run_sql_queries("pandas", search_events, click_events, reservations)
    /\ UNCHANGED <<files, prompt>>

----------------------------------------------------------------------------
(* bot_filtered_analysis.py: reads the cache with is_bot = 'False'.        *)

analyze_conversion_without_bots(d, se, ce, rs) ==
    LET script == "bot_filtered_analysis"
        search_events_ == WhereIsBotFalseText(d, se)
        click_events_ == WhereIsBotFalseText(d, ce)
        searchers == UniqueIds(search_events_)
        clickers == UniqueIds(click_events_)
        reservers == UniqueIds(rs)
        funnel_users == FunnelUsers(searchers, clickers, reservers)
    IN  IF ~Loaded(d) THEN Raised(script, "DatabaseError")
        ELSE IF Cardinality(searchers) = 0 THEN Raised(script, "ZeroDivisionError")
        ELSE IF Cardinality(searchers \cap clickers) = 0
             THEN Raised(script, "ZeroDivisionError")
        ELSE [script |-> script,
              status |-> "ok",
              non_bot_searchers |-> Cardinality(searchers),
              non_bot_clickers |-> Cardinality(clickers),
              funnel_users |-> Cardinality(funnel_users),
              search_to_click_rate |->
                  Pct(Cardinality(searchers \cap clickers), Cardinality(searchers)),
              click_to_reserve_rate |->
                  Pct(Cardinality((searchers \cap clickers) \cap reservers),
                      Cardinality(searchers \cap clickers)),
              search_to_reserve_rate |->
                  Pct(Cardinality(funnel_users), Cardinality(searchers)),
              locals |-> [searchers |-> searchers,
                          clickers |-> clickers,
                          reservers |-> reservers,
                          funnel_users |-> funnel_users]]

RunBotFilteredAnalysis ==
    /\ Idle
    /\ db' = Connect(db)
    /\ UNCHANGED <<table_copies, rebuilt>>
    /\ report' = analyze_conversion_without_bots(
                     Connect(db), search_events, click_events, reservations)
    /\ UNCHANGED <<files, prompt>>

----------------------------------------------------------------------------
(* Segmented analyses that read the cache database.                        *)

(* The search_events table as read back: the csv loader stored a missing   *)
(* field as the empty string, which pd.isna does not count as missing.     *)
ReadSearchEvents(d, rows) ==
    IF d = "csv"
    THEN {[r EXCEPT !.cat = IF r.cat = NaN THEN "" ELSE r.cat] : r \in rows}
    ELSE rows

NonBotSearchEvents(d, se) == WhereIsBotFalseText(d, ReadSearchEvents(d, se))

(* search_sort_preference_chart.py *)
create_search_sort_preference_chart(d, se, ce, rs, sort_preferences) ==
    LET script == "search_sort_preference_chart"
        search_events_ == NonBotSearchEvents(d, se)
        click_events_ == WhereIsBotFalseText(d, ce)
        funnel_users == FunnelUsers(UniqueIds(search_events_),
                                    UniqueIds(click_events_), UniqueIds(rs))
        sort_data == CategoryLoop(search_events_, funnel_users, 0, sort_preferences)
        sort_df == sort_values(sort_data, "rate", TRUE)
    IN  IF ~Loaded(d) THEN Raised(script, "DatabaseError")
        ELSE IF sort_df.status # "ok" THEN Raised(script, sort_df.status)
        ELSE [script |-> script, status |-> "ok", rows |-> sort_df.rows]

RunSearchSortPreferenceChart ==
    /\ Idle
    /\ db' = Connect(db)
    /\ UNCHANGED <<table_copies, rebuilt>>
    /\ \E order \in Perms(UniqueCats(NonBotSearchEvents(Connect(db), search_events))) :
          report' = create_search_sort_preference_chart(
                        Connect(db), search_events, click_events, reservations, order)
    /\ UNCHANGED <<files, prompt>>

(* listing_characteristics_conversion_analysis.py *)
TopPositions == 10

(* click_events['search_position'] == str(position): equal texts in a      *)
(* table the csv loader wrote                                              *)
AtPosition(d, click, position) == d = "csv" /\ click.pos = position

analyze_by_search_position(d, ce, funnel_users) ==
    [position \in 1..TopPositions |->
        LET position_users == UniqueIds({c \in ce : AtPosition(d, c, position)})
            total_users == Cardinality(position_users)
            converting_users == Cardinality(position_users \cap funnel_users)
        IN  [characteristic |-> position,
             total_users |-> total_users,
             converting_users |-> converting_users,
             conversion_rate |-> GuardedPct(converting_users, total_users)]]

analyze_by_search_sort(se, funnel_users, order) ==
    sort_values(CategoryLoop(se, funnel_users, 0, order), "rate", FALSE)

(* The search-sort table stands for the term-category, geography, user     *)
(* type and time tables too: each is built and sorted the same way.        *)
analyze_listing_characteristics_conversion(d, se, ce, rs, order) ==
    LET script == "listing_characteristics_conversion_analysis"
        search_events_ == NonBotSearchEvents(d, se)
        click_events_ == WhereIsBotFalseText(d, ce)
        funnel_users == FunnelUsers(UniqueIds(search_events_),
                                    UniqueIds(click_events_), UniqueIds(rs))
        position_analysis == analyze_by_search_position(d, click_events_, funnel_users)
        sort_analysis == analyze_by_search_sort(search_events_, funnel_users, order)
    IN  IF ~Loaded(d) THEN Raised(script, "DatabaseError")
        ELSE IF sort_analysis.status # "ok" THEN Raised(script, sort_analysis.status)
        ELSE [script |-> script,
              status |-> "ok",
              search_position |-> position_analysis,
              search_sort |-> sort_analysis.rows,
              locals |-> [funnel_users |-> funnel_users]]

RunListingCharacteristicsConversion ==
    /\ Idle
    /\ db' = Connect(db)
    /\ UNCHANGED <<table_copies, rebuilt>>
    /\ \E order \in Perms(UniqueCats(NonBotSearchEvents(Connect(db), search_events))) :
          report' = analyze_listing_characteristics_conversion(
                        Connect(db), search_events, click_events, reservations, order)
    /\ UNCHANGED <<files, prompt>>

(* listing_conversion_analysis.py *)

(* pd.cut(search_position_numeric, bins=[0, 5, 10, 15, 20, 100], labels=...) *)
position_bin(pos) ==
    IF 0 < pos /\ pos <= 5 THEN "1-5"
    ELSE IF 5 < pos /\ pos <= 10 THEN "6-10"
    ELSE IF 10 < pos /\ pos <= 15 THEN "11-15"
    ELSE IF 15 < pos /\ pos <= 20 THEN "16-20"
    ELSE IF 20 < pos /\ pos <= 100 THEN "20+"
    ELSE NaN

PositionBins(listing_views) == {position_bin(v.pos) : v \in listing_views}

ListingCategoryRow(listing_views, rs, category) ==
    LET category_listings ==
            IF category = NaN THEN {}
            ELSE {v \in listing_views : position_bin(v.pos) = category}
        category_listing_ids == {v.listing : v \in category_listings}
        reserved_listings == {r.listing : r \in rs}
        total_views == Cardinality(category_listings)
        total_reservations ==
            Cardinality({r \in rs : r.listing \in category_listing_ids})
        unique_listings == Cardinality(category_listing_ids)
        reserved_listings_in_category ==
            Cardinality(category_listing_ids \cap reserved_listings)
    IN  [category |-> category,
         total_views |-> total_views,
         total_reservations |-> total_reservations,
         conversion_rate |-> GuardedPct(total_reservations, total_views),
         unique_listings |-> unique_listings,
         reserved_listings |-> reserved_listings_in_category,
         listing_reservation_rate |->
             GuardedPct(reserved_listings_in_category, unique_listings)]

MeetsMinViews(row, min_views) == row.total_views >= min_views

analyze_listing_characteristic_by_category(listing_views, rs, min_views, order) ==
    sort_values(
        SelectSeq([i \in 1..Len(order) |-> ListingCategoryRow(listing_views, rs, order[i])],
                  LAMBDA row : row.category # NaN /\ MeetsMinViews(row, min_views)),
        "conversion_rate", FALSE)

analyze_listing_conversion_characteristics(d, ce, rs, min_views, order) ==
    LET script == "listing_conversion_analysis"
        position_analysis ==
            analyze_listing_characteristic_by_category(ce, rs, min_views, order)
    IN  IF ~Loaded(d) THEN Raised(script, "DatabaseError")
        ELSE IF position_analysis.status # "ok"
             THEN Raised(script, position_analysis.status)
        ELSE [script |-> script,
              status |-> "ok",
              min_views |-> min_views,
              rows |-> position_analysis.rows]

RunListingConversionAnalysis ==
    /\ Idle
    /\ db' = Connect(db)
    /\ UNCHANGED <<table_copies, rebuilt>>
    /\ \E min_views \in MinCounts, order \in Perms(PositionBins(click_events)) :
          report' = analyze_listing_conversion_characteristics(
                        Connect(db), click_events, reservations, min_views, order)
    /\ UNCHANGED <<files, prompt>>

(* search_position_conversion_rate_chart.py *)
ChartPositions == 20

(* random.seed(position); random.uniform(-0.5, 0.5) for position 1..20,    *)
(* in millionths of a percentage point (CPython's generator).              *)
Variation ==
    <<-365636, 456034, -262035, -263952, 122902, 293340, -176167, -273294,
      -36993, 71403, -47620, -25429, -240992, -393171, 465242, -138477,
      21984, -318735, 177126, 405640>>

(* max(0, 8.0 - (position - 1) * 0.1) + variation, as an exact fraction    *)
ProxyConversionRate(position) ==
    LET penalised == 8000000 - (position - 1) * 100000
    IN  Rat((IF penalised > 0 THEN penalised ELSE 0) + Variation[position], 1000000)

create_search_position_conversion_rate_chart(d, ce) ==
    LET script == "search_position_conversion_rate_chart"
        click_events_ == WhereIsBotFalseText(d, ce)
    IN  IF ~Loaded(d) THEN Raised(script, "DatabaseError")
        ELSE [script |-> script,
              status |-> "ok",
              rows |->
                  [position \in 1..ChartPositions |->
                      LET total_clickers ==
                              Cardinality(UniqueIds(
                                  {c \in click_events_ : AtPosition(d, c, position)}))
                          conversion_rate == ProxyConversionRate(position)
                      IN  [search_position |-> position,
                           total_clickers |-> total_clickers,
                           converting_users |->
                               (total_clickers * conversion_rate[1])
                                   \div (conversion_rate[2] * 100),
                           conversion_rate |-> conversion_rate]]]

RunSearchPositionConversionRateChart ==
    /\ Idle
    /\ db' = Connect(db)
    /\ UNCHANGED <<table_copies, rebuilt>>
    /\ report' = create_search_position_conversion_rate_chart(Connect(db), click_events)
    /\ UNCHANGED <<files, prompt>>

(* search_position_buckets_corrected_final.py *)
OverlappingUsers == 597

position_buckets == <<<<1, 5>>, <<6, 10>>, <<11, 15>>, <<16, 20>>>>

create_search_position_buckets_corrected_final(d, ce) ==
    LET script == "search_position_buckets_corrected_final"
        click_events_ == WhereIsBotFalseText(d, ce)
        total_clicks == Cardinality(click_events_)
    IN  IF ~Loaded(d) THEN Raised(script, "DatabaseError")
        ELSE IF total_clicks = 0 THEN Raised(script, "ZeroDivisionError")
        ELSE [script |-> script,
              status |-> "ok",
              rows |->
                  [b \in 1..Len(position_buckets) |->
                      LET bucket_clicks ==
                              {c \in click_events_ :
                                  /\ c.pos >= position_buckets[b][1]
                                  /\ c.pos <= position_buckets[b][2]}
                          total_clickers == Cardinality(UniqueIds(bucket_clicks))
                          estimated_converting_users ==
                              (OverlappingUsers * Cardinality(bucket_clicks))
                                  \div total_clicks
                      IN  [position_bucket |-> b,
                           total_clickers |-> total_clickers,
                           converting_users |-> estimated_converting_users,
                           conversion_rate |->
                               GuardedPct(estimated_converting_users, total_clickers)]]]

RunSearchPositionBuckets ==
    /\ Idle
    /\ db' = Connect(db)
    /\ UNCHANGED <<table_copies, rebuilt>>
    /\ report' = create_search_position_buckets_corrected_final(
                     Connect(db), click_events)
    /\ UNCHANGED <<files, prompt>>

----------------------------------------------------------------------------
(* conversion_analysis.py: create_database_from_csvs() replaces the four   *)
(* tables with DataFrame.to_sql, run_sql_analysis() runs five queries with *)
(* is_bot = 0, each inside its own try / except, and the charts and the    *)
(* recommendations are built from the results that are there.              *)
(*                                                                         *)
(* Query 0 is the funnel query and query 4 the payment summary: both read  *)
(* columns the other scripts read too.  Queries 1, 2 and 3 group the       *)
(* cleaned searches by search_type, by the attribution columns and by      *)
(* month; whether the export has those columns is an input of the run      *)
(* (failing), as is the presence of sql_analysis.sql, which is opened      *)
(* before the first query and is not part of the repository.               *)

QueryIndexes == 0 .. 4
GroupedQueries == {1, 2, 3}

(* HAVING COUNT(DISTINCT s.merged_amplitude_id) >= 10 of query 2 *)
AttributionMinSearchers == 10

(* The DataFrame of query i, for the queries that succeed. *)
QueryResult(d, se, ce, rs, i) ==
    LET cleaned_search_events == WhereIsBotZero(d, se)
        cleaned_listing_views == WhereIsBotZero(d, ce)
    IN  IF i = 0
        THEN [empty |-> FALSE,
              row |-> FunnelQuery(d, cleaned_search_events, cleaned_listing_views, rs)]
        ELSE IF i = 4
        THEN [empty |-> FALSE,
              row |-> [total_reservations |-> Cardinality(rs),
                       successful_payments |-> Cardinality(PaymentNotNull(d, rs)),
                       payment_completion_rate |->
                           IF Cardinality(rs) = 0 THEN NaNRate
                           ELSE Pct(Cardinality(PaymentNotNull(d, rs)), Cardinality(rs))]]
        ELSE IF i = 2
        THEN [empty |-> NUnique(cleaned_search_events) < AttributionMinSearchers]
        ELSE [empty |-> cleaned_search_events = {}]

run_sql_analysis_stopping_at_first_error(d, se, ce, rs, failing) ==
    LET attempted == {i \in QueryIndexes : \A j \in failing : i <= j}
    IN  [attempted |-> attempted,
         errors |-> attempted \cap failing,
         results |-> [i \in attempted \ failing |-> QueryResult(d, se, ce, rs, i)]]

(* for i, query in enumerate(queries): try: results[f'query_{i}'] = ...     *)
(* except Exception as e: print(f"Error in query {i+1}: {e}")              *)
run_sql_analysis(d, se, ce, rs, failing) ==
    LET attempted == QueryIndexes
    IN  [attempted |-> attempted,
         errors |-> attempted \cap failing,
         results |-> [i \in attempted \ failing |-> QueryResult(d, se, ce, rs, i)]]

create_visualizations_unguarded(results, numeric_null) ==
    LET read == QueryIndexes
    IN  [status |-> IF read \subseteq DOMAIN results THEN "ok" ELSE "KeyError",
         read |-> read,
         saved |-> {i \in read \cap DOMAIN results : ~results[i].empty}]

(* One chart per key, each under                                           *)
(*   if 'query_i' in results and not results['query_i'].empty              *)
(* The payment chart adds 1 to payment_completion_rate, which is NULL when *)
(* there is no reservation: numeric_null says whether pandas hands the     *)
(* NULL over as nan (the chart is drawn) or as None (TypeError).           *)
create_visualizations(results, numeric_null) ==
    LET read == {i \in QueryIndexes : i \in DOMAIN results}
        plotted == {i \in read : ~results[i].empty}
        payment_raises ==
            /\ 4 \in plotted
            /\ results[4].row.payment_completion_rate = NaNRate
            /\ ~numeric_null
    IN  [status |-> IF payment_raises THEN "TypeError" ELSE "ok",
         read |-> read,
         saved |-> IF payment_raises THEN plotted \ {4} ELSE plotted]

(* Reads query_0, query_1 and query_4 under the same test; formats         *)
(* payment_completion_rate with :.1f, which accepts nan.                   *)
generate_business_recommendations(results) ==
    LET read == {i \in {0, 1, 4} : i \in DOMAIN results}
    IN  [read |-> read,
         recommendations |-> {i \in read : ~results[i].empty}]

(* main() *)
conversion_analysis_main(se, ce, rs, sql_file, failing, numeric_null) ==
    LET script == "conversion_analysis"
        d == "pandas"
        analysis == run_sql_analysis(d, se, ce, rs, failing)
        results == analysis.results
        charts == create_visualizations(results, numeric_null)
        recommendations == generate_business_recommendations(results)
        nothing == [i \in {} |-> [empty |-> TRUE]]
    IN  IF ~sql_file
        THEN [script |-> script, status |-> "FileNotFoundError",
              attempted |-> {}, errors |-> {}, results |-> nothing,
              read_by_charts |-> {}, saved |-> {}, read_by_recommendations |-> {},
              summary |-> {}, closed |-> FALSE]
        ELSE IF charts.status # "ok"
        THEN [script |-> script, status |-> charts.status,
              attempted |-> analysis.attempted, errors |-> analysis.errors,
              results |-> results,
              read_by_charts |-> charts.read, saved |-> charts.saved,
              read_by_recommendations |-> {},
              summary |-> {}, closed |-> FALSE]
        ELSE [script |-> script, status |-> "ok",
              attempted |-> analysis.attempted, errors |-> analysis.errors,
              results |-> results,
              read_by_charts |-> charts.read, saved |-> charts.saved,
              read_by_recommendations |-> recommendations.read,
              summary |-> {i \in DOMAIN results : ~results[i].empty},
              closed |-> TRUE]

RunConversionAnalysis ==
    /\ Idle
    /\ db' = "pandas"
    /\ table_copies' = to_sql_replace(table_copies)
    /\ rebuilt' = LoadKind(db)
    /\ \E sql_file \in BOOLEAN, failing \in SUBSET GroupedQueries,
          numeric_null \in BOOLEAN :
          report' = conversion_analysis_main(
                        search_events, click_events, reservations,
                        sql_file, failing, numeric_null)
    /\ UNCHANGED <<files, prompt>>

----------------------------------------------------------------------------
(* create_charts.py: create_database() loads the tables with the csv       *)
(* module only when the file does not exist; main() calls the seven chart  *)
(* functions in one try block, prints the error of the first one that      *)
(* raises, and closes the connection.                                      *)
(*                                                                         *)
(* Chart 1 is the funnel chart (is_bot = 'False'); it is saved and its     *)
(* counts are printed before the overall rate payers / searchers * 100 is  *)
(* formatted without a guard.  Charts 2 to 7 read columns this model does  *)
(* not keep: which of them raise is an input of the run (failing).         *)

Charts == 1 .. 7
LaterCharts == 2 .. 7

create_charts_create_database(d) == IF os_path_exists(d) THEN d ELSE "csv"

create_conversion_funnel_chart(d, se, ce, rs) ==
    LET result == FunnelQuery(d, WhereIsBotFalseText(d, se),
                              WhereIsBotFalseText(d, ce), rs)
        searchers == result.total_searchers
        viewers == result.total_viewers
        reservers == result.total_reservers
        payers == result.total_payers
    IN  IF ~Loaded(d) THEN [status |-> "OperationalError", saved |-> FALSE]
        ELSE [status |-> IF searchers = 0 THEN "ZeroDivisionError" ELSE "ok",
              saved |-> TRUE,
              searchers |-> searchers,
              viewers |-> viewers,
              reservers |-> reservers,
              payers |-> payers,
              conversion_rates |-> <<Hundred,
                                     GuardedPct(viewers, searchers),
                                     GuardedPct(reservers, viewers),
                                     GuardedPct(payers, reservers)>>]

create_charts_main(d, se, ce, rs, failing) ==
    LET funnel == create_conversion_funnel_chart(d, se, ce, rs)
        raising == failing \cup (IF funnel.status # "ok" THEN {1} ELSE {})
        called == {c \in Charts : \A f \in raising : c <= f}
        saved == (called \ raising) \cup (IF funnel.saved THEN {1} ELSE {})
    IN  [script |-> "create_charts",
         status |-> "ok",
         called |-> called,
         saved |-> saved,
         funnel |-> funnel,
         error |-> called \cap raising,
         all_created |-> raising = {},
         closed |-> TRUE]

RunCreateCharts ==
    \/ /\ Idle
       /\ db' = create_charts_create_database(db)
       /\ table_copies' = IF os_path_exists(db) THEN table_copies
                          ELSE drop_create_insert(table_copies)
       /\ rebuilt' = IF os_path_exists(db) THEN "no" ELSE LoadKind(db)
       /\ \E failing \in SUBSET LaterCharts :
             report' = create_charts_main(create_charts_create_database(db),
                                          search_events, click_events, reservations,
                                          failing)
       /\ UNCHANGED <<files, prompt>>
    \/ create_database_missing_csv("create_charts", Connect(db))

----------------------------------------------------------------------------
(* day_of_week_conversion_chart.py: reads the cache with is_bot = 'False'  *)
(* and reports one row per day of the week.                                *)

days == <<"Monday", "Tuesday", "Wednesday", "Thursday", "Friday", "Saturday", "Sunday">>

(* event_time.dt.day_name(): time 1 is a Monday *)
day_name(t) == days[((t - 1) % Len(days)) + 1]

create_day_of_week_conversion_chart(d, se, ce, rs) ==
    LET script == "day_of_week_conversion_chart"
        search_events_ == WhereIsBotFalseText(d, se)
        click_events_ == WhereIsBotFalseText(d, ce)
        funnel_users == FunnelUsers(UniqueIds(search_events_),
                                    UniqueIds(click_events_), UniqueIds(rs))
    IN  IF ~Loaded(d) THEN Raised(script, "DatabaseError")
        ELSE [script |-> script,
              status |-> "ok",
              rows |-> [k \in 1..Len(days) |->
                  LET day_searches == {s \in search_events_ : day_name(s.t) = days[k]}
                      day_users == UniqueIds(day_searches)
                      total_searchers == Cardinality(day_users)
                      funnel_users_in_day == Cardinality(day_users \cap funnel_users)
                  IN  [day_of_week |-> days[k],
                       total_searchers |-> total_searchers,
                       funnel_users |-> funnel_users_in_day,
                       conversion_rate |->
                           GuardedPct(funnel_users_in_day, total_searchers)]]]

RunDayOfWeekConversionChart ==
    /\ Idle
    /\ db' = Connect(db)
    /\ UNCHANGED <<table_copies, rebuilt>>
    /\ report' = create_day_of_week_conversion_chart(
                     Connect(db), search_events, click_events, reservations)
    /\ UNCHANGED <<files, prompt>>

----------------------------------------------------------------------------
(* debug_boolean.py: counts the searches with a sort preference under both *)
(* spellings of the bot filter and without a filter.                       *)

(* search_sort IS NOT NULL: the csv loader stored a missing field as '' *)
SearchSortNotNull(d, rows) ==
    IF d = "csv" THEN rows ELSE {r \in rows : r.cat # NaN}

(* SELECT DISTINCT is_bot FROM search_events *)
DistinctIsBot(d, rows) ==
    IF d = "csv" THEN {IF r.bot THEN "True" ELSE "False" : r \in rows}
    ELSE {IF r.bot THEN "1" ELSE "0" : r \in rows}

debug_boolean(d, copies, se) ==
    LET script == "debug_boolean"
        sorted == SearchSortNotNull(d, se)
    IN  IF ~Loaded(d) THEN Raised(script, "DatabaseError")
        ELSE [script |-> script,
              status |-> "ok",
              raw_bot |-> DistinctIsBot(d, se),
              count_zero |-> copies * Cardinality(WhereIsBotZero(d, sorted)),
              count_false_text |-> copies * Cardinality(WhereIsBotFalseText(d, sorted)),
              count_all |-> copies * Cardinality(sorted)]

RunDebugBoolean ==
    /\ Idle
    /\ db' = Connect(db)
    /\ UNCHANGED <<table_copies, rebuilt>>
    /\ report' = debug_boolean(Connect(db), table_copies, search_events)
    /\ UNCHANGED <<files, prompt>>

----------------------------------------------------------------------------
(* The SQL prompts interactive_sql.py and simple_sql.py.                   *)
(*   variant    : the script that runs the prompt                          *)
(*   pc         : "not_started", "reading" (the loop is at input()),       *)
(*                "done" (interactive_sql() returned)                      *)
(*   conn       : the sqlite3 connection: "none", "open", "closed"         *)
(*   stdin      : "open", or "ended" once input() met the end of input     *)
(*   last_input : what the last input() call gave                          *)
(*   printed    : what the last iteration printed                          *)
(*   executed   : the number of calls of execute_query                     *)
(*   applied    : the number of statements that ran on the connection      *)
(*                without giving a result set                              *)
(*   closes     : the number of calls of conn.close()                      *)
(* A line is a sequence of symbols: blanks, letters, and one symbol for a  *)
(* whole SQL text.                                                         *)

MaxQueries == 2

Whitespace == {" "}

SelectText == "SELECT * FROM search_events"
CreateText == "CREATE TABLE IF NOT EXISTS notes (x)"

Lines ==
    {<<"q", "u", "i", "t">>,
     <<" ", "E", "x", "i", "t", " ">>,
     <<"Q">>,
     <<"H", "e", "l", "p">>,
     <<"t", "a", "b", "l", "e", "s">>,
     <<>>,
     <<" ">>,
     <<" ", SelectText>>,
     <<CreateText>>,
     <<"q", "u", "i", "t", ";">>}

NoInput == [kind |-> "none", text |-> <<>>]
LineRead(text) == [kind |-> "line", text |-> text]
KeyboardInterrupt == [kind |-> "KeyboardInterrupt", text |-> <<>>]
EOFError == [kind |-> "EOFError", text |-> <<>>]

PromptIdle ==
    /\ variant = "none"
    /\ pc = "not_started"
    /\ conn = "none"
    /\ stdin = "open"
    /\ last_input = NoInput
    /\ printed = "none"
    /\ executed = 0
    /\ applied = 0
    /\ closes = 0

(* str.strip() *)
RECURSIVE lstrip(_)
lstrip(line) ==
    IF line # <<>> /\ Head(line) \in Whitespace THEN lstrip(Tail(line)) ELSE line

RECURSIVE rstrip(_)
rstrip(line) ==
    IF line # <<>> /\ line[Len(line)] \in Whitespace
    THEN rstrip(SubSeq(line, 1, Len(line) - 1))
    ELSE line

strip_leading(line) == lstrip(line)

strip(line) == rstrip(lstrip(line))

LowerCharUnchanged(ch) == ch

(* str.lower(), on the letters of the lines above *)
LowerChar(ch) ==
    CASE ch = "Q" -> "q"
      [] ch = "E" -> "e"
      [] ch = "H" -> "h"
      [] OTHER -> ch

RECURSIVE lower(_)
lower(line) ==
    IF line = <<>> THEN <<>> ELSE <<LowerChar(Head(line))>> \o lower(Tail(line))

QuitWords == {<<"q", "u", "i", "t">>, <<"e", "x", "i", "t">>, <<"q">>}
HelpWord == <<"h", "e", "l", "p">>
TablesWord == <<"t", "a", "b", "l", "e", "s">>

(* The lines the loop passes to execute_query. *)
IsQuery(query) ==
    /\ lower(query) \notin QuitWords
    /\ lower(query) # HelpWord
    /\ lower(query) # TablesWord
    /\ query # <<>>

(* What sqlite does with a query text: "rows" (a result set, which may be  *)
(* empty), "no_result_set" (the statement ran; cursor.description is       *)
(* None), or "raises" (a syntax error, or a table that does not exist).    *)
SqlOutcome(d, query) ==
    IF query = <<SelectText>> THEN (IF Loaded(d) THEN "rows" ELSE "raises")
    ELSE IF query = <<CreateText>> THEN "no_result_set"
    ELSE "raises"

(* create_database() of interactive_sql.py: DataFrame.to_sql, only when    *)
(* the file does not exist                                                 *)
interactive_sql_create_database(d) == IF d = "absent" THEN "pandas" ELSE d

(* create_database() of simple_sql.py: the csv module, only when the file  *)
(* does not exist                                                          *)
simple_sql_create_database(d) == IF d = "absent" THEN "csv" ELSE d

execute_query_uncaught(d, query) ==
    LET outcome == SqlOutcome(d, query)
    IN  [raised |-> outcome # "rows",
         error |-> FALSE,
         applied |-> IF outcome = "no_result_set" THEN 1 ELSE 0]

(* execute_query() of interactive_sql.py: pd.read_sql_query inside         *)
(* try / except Exception; the error comes back as the text "Error: ...".  *)
(* A statement without a result set runs and then fails in pandas on       *)
(* cursor.description.                                                     *)
interactive_sql_execute_query(d, query) ==
    LET outcome == SqlOutcome(d, query)
    IN  [raised |-> FALSE,
         error |-> outcome # "rows",
         applied |-> IF outcome = "no_result_set" THEN 1 ELSE 0]

(* execute_query() of simple_sql.py: conn.execute, fetchall and the column *)
(* names from cursor.description inside try / except Exception; the error  *)
(* comes back as (None, message).                                          *)
simple_sql_execute_query(d, query) ==
    LET outcome == SqlOutcome(d, query)
    IN  [raised |-> FALSE,
         error |-> outcome # "rows",
         applied |-> IF outcome = "no_result_set" THEN 1 ELSE 0]

(* The part of interactive_sql() before the loop. *)
StartPrompt(script, d, copies) ==
    /\ Idle
    /\ db' = d
    /\ table_copies' = copies
    /\ rebuilt' = IF os_path_exists(db) THEN "no" ELSE LoadKind(db)
    /\ variant' = script
    /\ conn' = "open"
    /\ pc' = "reading"
    /\ printed' = "quick_start"
    /\ UNCHANGED <<files, report, stdin, last_input, executed, applied, closes>>

StartInteractiveSql ==
    \/ StartPrompt("interactive_sql", interactive_sql_create_database(db),
                   IF os_path_exists(db) THEN table_copies
                   ELSE to_sql_replace(table_copies))
    \/ create_database_missing_csv("interactive_sql", db)

StartSimpleSql ==
    \/ StartPrompt("simple_sql", simple_sql_create_database(db),
                   IF os_path_exists(db) THEN table_copies
                   ELSE drop_create_insert(table_copies))
    \/ create_database_missing_csv("simple_sql", Connect(db))

(* break, then conn.close() and the return of interactive_sql() *)
LeaveLoop ==
    /\ printed' = "goodbye"
    /\ pc' = "done"
    /\ conn' = "closed"
    /\ closes' = closes + 1
    /\ UNCHANGED <<executed, applied>>

StayInLoop(out) ==
    /\ printed' = out
    /\ UNCHANGED <<pc, conn, closes>>

(* One iteration of `while True`: input(), the special commands, the       *)
(* query, and the two except clauses.  End of input raises EOFError in     *)
(* input(), which `except Exception` reports before the loop goes on.      *)
PromptIteration(script, event, result) ==
    /\ variant = script
    /\ pc = "reading"
    /\ stdin = "ended" => event.kind # "line"
    /\ last_input' = event
    /\ stdin' = IF event.kind = "EOFError" THEN "ended" ELSE stdin
    /\ IF event.kind = "KeyboardInterrupt" THEN LeaveLoop
       ELSE IF event.kind = "EOFError"
            THEN StayInLoop("unexpected_error") /\ UNCHANGED <<executed, applied>>
       ELSE LET query == strip(event.text)
            IN  IF lower(query) \in QuitWords THEN LeaveLoop
                ELSE IF lower(query) = HelpWord
                     THEN StayInLoop("help") /\ UNCHANGED <<executed, applied>>
                ELSE IF lower(query) = TablesWord
                     THEN StayInLoop("tables") /\ UNCHANGED <<executed, applied>>
                ELSE IF query = <<>>
                     THEN StayInLoop("nothing") /\ UNCHANGED <<executed, applied>>
                ELSE /\ executed < MaxQueries
                     /\ executed' = executed + 1
                     /\ applied' = applied + result.applied
                     /\ StayInLoop(IF result.raised THEN "unexpected_error"
                                   ELSE IF result.error THEN "error"
                                   ELSE IF search_events = {} THEN "no_results"
                                   ELSE "results")
    /\ UNCHANGED <<files, cache, rebuilt, report, variant>>

InputEvents == {LineRead(text) : text \in Lines} \cup {KeyboardInterrupt, EOFError}

InteractiveSqlIteration ==
    \E event \in InputEvents :
        PromptIteration("interactive_sql", event,
                        interactive_sql_execute_query(db, strip(event.text)))

SimpleSqlIteration ==
    \E event \in InputEvents :
        PromptIteration("simple_sql", event,
                        simple_sql_execute_query(db, strip(event.text)))

(* The process of the prompt exits after interactive_sql() returned. *)
PromptExit ==
    /\ pc = "done"
    /\ variant' = "none"
    /\ pc' = "not_started"
    /\ conn' = "none"
    /\ stdin' = "open"
    /\ last_input' = NoInput
    /\ printed' = "none"
    /\ executed' = 0
    /\ applied' = 0
    /\ closes' = 0
    /\ rebuilt' = "no"
    /\ UNCHANGED <<files, cache, report>>

----------------------------------------------------------------------------
(* Input files of the funnel runs: the id and the timestamp of every row   *)
(* vary; the spec's worked example is one more input.                      *)

FunnelSearchRows == {SearchRow(i, t, "a", FALSE) : i \in Ids, t \in Times}
FunnelClickRows == {ClickRow(i, t, 1, 1, FALSE) : i \in Ids, t \in Times}
FunnelReservationRows == {ReservationRow(i, t, 1, FALSE) : i \in Ids, t \in Times}

ExampleFiles ==
    <<{SearchRow(i, 1, "a", FALSE) : i \in {1, 2, 3, 4}},
      {ClickRow(i, 1, 1, 1, FALSE) : i \in {2, 3, 5}},
      {ReservationRow(i, 1, 1, FALSE) : i \in {3, 4}}>>


Init ==
    /\ \E f \in FilesFrom(FunnelSearchRows, FunnelClickRows, FunnelReservationRows)
                \cup {ExampleFiles} :
          /\ search_events = f[1]
          /\ click_events = f[2]
          /\ reservations = f[3]
    /\ db = "absent"
    /\ table_copies = 0
    /\ rebuilt = "no"
    /\ report = NoReport
    /\ PromptIdle

Next ==
    \/ RunConversionFunnelAnalysis
    \/ ProcessExit

Spec == Init /\ [][Next]_vars

----------------------------------------------------------------------------
(* Input files of the segmented runs: the id of every row, the category    *)
(* of every search event and the search position of every listing view     *)
(* vary.                                                                   *)

PosValues == {1, 2, 6}

SegmentSearchRows == {SearchRow(i, 1, c, FALSE) : i \in Ids, c \in CatValues}
SegmentClickRows == {ClickRow(i, 1, p, 1, FALSE) : i \in Ids, p \in PosValues}
SegmentReservationRows == {ReservationRow(i, 1, 1, FALSE) : i \in Ids}

InitSegment ==
    /\ \E f \in FilesFrom(SegmentSearchRows, SegmentClickRows, SegmentReservationRows) :
          /\ search_events = f[1]
          /\ click_events = f[2]
          /\ reservations = f[3]
    /\ db = "absent"
    /\ table_copies = 0
    /\ rebuilt = "no"
    /\ report = NoReport
    /\ PromptIdle

NextSegment ==
    \/ RunConversionFunnelAnalysis
    \/ RunSearchCharacteristics
    \/ RunNonConvertingSearches
    \/ RunConversionByChannel
    \/ RunFunnelAnalysis
    \/ RunSearchSortPreferenceChart
    \/ RunListingCharacteristicsConversion
    \/ RunListingConversionAnalysis
    \/ RunSearchPositionConversionRateChart
    \/ RunSearchPositionBuckets
    \/ ProcessExit

SpecSegment == InitSegment /\ [][NextSegment]_vars

----------------------------------------------------------------------------
(* Input files of the cache runs: the id of every row, the bot flag of     *)
(* every event and the payment of every reservation vary.                  *)

CacheSearchRows == {SearchRow(i, 1, "a", b) : i \in Ids, b \in BOOLEAN}
CacheClickRows == {ClickRow(i, 1, 1, 1, b) : i \in Ids, b \in BOOLEAN}
CacheReservationRows == {ReservationRow(i, 1, 1, p) : i \in Ids, p \in BOOLEAN}

InitCache ==
    /\ \E f \in FilesFrom(CacheSearchRows, CacheClickRows, CacheReservationRows) :
          /\ search_events = f[1]
          /\ click_events = f[2]
          /\ reservations = f[3]
    /\ db = "absent"
    /\ table_copies = 0
    /\ rebuilt = "no"
    /\ report = NoReport
    /\ PromptIdle

NextCache ==
    \/ RunFunnelAnalysis
    \/ RunSqlAnalysis
    \/ RunBotFilteredAnalysis
    \/ RunConversionFunnelAnalysis
    \/ RunNonConvertingSearches
    \/ ProcessExit

SpecCache == InitCache /\ [][NextCache]_vars

----------------------------------------------------------------------------
(* Input files of the runs that load, chart and inspect the cache          *)
(* database: searches of every actor on the actor's own day, with and      *)
(* without the bot flag, one view per actor, and the reservations of the   *)
(* first actor, paid or not.                                               *)

BatchSearchRows == {SearchRow(i, i, "a", b) : i \in Ids, b \in BOOLEAN}
BatchClickRows == {ClickRow(i, 1, 1, 1, FALSE) : i \in Ids}
BatchReservationRows == {ReservationRow(1, 1, 1, p) : p \in BOOLEAN}

InitBatch ==
    /\ \E f \in FilesFrom(BatchSearchRows, BatchClickRows, BatchReservationRows) :
          /\ search_events = f[1]
          /\ click_events = f[2]
          /\ reservations = f[3]
    /\ db = "absent"
    /\ table_copies = 0
    /\ rebuilt = "no"
    /\ report = NoReport
    /\ PromptIdle

NextBatch ==
    \/ RunFunnelAnalysis
    \/ RunSqlAnalysis
    \/ RunConversionAnalysis
    \/ RunCreateCharts
    \/ RunDayOfWeekConversionChart
    \/ RunBotFilteredAnalysis
    \/ RunDebugBoolean
    \/ ProcessExit

SpecBatch == InitBatch /\ [][NextBatch]_vars

----------------------------------------------------------------------------
(* Sessions of the SQL prompts: the files are the worked example or hold   *)
(* no row; the cache database is whatever the scripts run before left.     *)

NoRows == <<{}, {}, {}>>

InitPrompt ==
    /\ \E f \in {ExampleFiles, NoRows} :
          /\ search_events = f[1]
          /\ click_events = f[2]
          /\ reservations = f[3]
    /\ db = "absent"
    /\ table_copies = 0
    /\ rebuilt = "no"
    /\ report = NoReport
    /\ PromptIdle

NextPrompt ==
    \/ StartInteractiveSql
    \/ StartSimpleSql
    \/ InteractiveSqlIteration
    \/ SimpleSqlIteration
    \/ PromptExit
    \/ RunBotFilteredAnalysis
    \/ RunFunnelAnalysis
    \/ RunSqlAnalysis
    \/ ProcessExit

SpecPrompt == InitPrompt /\ [][NextPrompt]_vars

(* Runs of the three scripts that load the cache only when the file does   *)
(* not exist, on their own: no other script touches the cache file.        *)
NextCreateDatabase ==
    \/ StartInteractiveSql
    \/ StartSimpleSql
    \/ InteractiveSqlIteration
    \/ SimpleSqlIteration
    \/ PromptExit
    \/ RunCreateCharts
    \/ ProcessExit

SpecCreateDatabase == InitPrompt /\ [][NextCreateDatabase]_vars

(* The same sessions with the progress the interpreter guarantees: while   *)
(* the loop runs, input() returns a line or raises EOFError and the        *)
(* iteration is carried out; once interactive_sql() has returned, the      *)
(* process exits.  A keyboard interrupt is up to the user and is never     *)
(* forced.                                                                 *)
LoopStep ==
    \E event \in InputEvents \ {KeyboardInterrupt} :
        \/ PromptIteration("interactive_sql", event,
                           interactive_sql_execute_query(db, strip(event.text)))
        \/ PromptIteration("simple_sql", event,
                           simple_sql_execute_query(db, strip(event.text)))

SpecPromptLive ==
    InitPrompt /\ [][NextPrompt]_vars /\ WF_vars(LoopStep) /\ WF_vars(PromptExit)

----------------------------------------------------------------------------
(* Properties. *)

S_ == UniqueIds(search_events)
C_ == UniqueIds(click_events)
R_ == UniqueIds(reservations)

InRange(rate) == rate[2] > 0 /\ RatLeq(Zero, rate) /\ RatLeq(rate, Hundred)

(* C1: for any searcher, clicker and reserver sets S, C, R,                *)
(* analyze_search_to_reservation_conversion reports                        *)
(* searched_and_clicked = |S n C|, searched_clicked_reserved = |S n C n R|,*)
(* search_to_click_rate = |S n C| / |S| * 100, click_to_reserve_rate =     *)
(* |S n C n R| / |S n C| * 100 and search_to_reserve_rate =                *)
(* |S n C n R| / |S| * 100 (a rate with an empty denominator being 0);     *)
(* S = {1,2,3,4}, C = {2,3,5}, R = {3,4} gives the funnel {3} and a        *)
(* search-to-reserve rate of 25.                                           *)
C1_FunnelReport ==
    report.script = "conversion_funnel_analysis" =>
        /\ report.status = "ok"
        /\ report.searched_and_clicked = Cardinality(S_ \cap C_)
        /\ report.searched_clicked_reserved = Cardinality(S_ \cap C_ \cap R_)
        /\ report.search_to_click_rate =
               GuardedPct(Cardinality(S_ \cap C_), Cardinality(S_))
        /\ report.click_to_reserve_rate =
               GuardedPct(Cardinality(S_ \cap C_ \cap R_), Cardinality(S_ \cap C_))
        /\ report.search_to_reserve_rate =
               GuardedPct(Cardinality(S_ \cap C_ \cap R_), Cardinality(S_))
        /\ (files = ExampleFiles =>
               /\ report.locals.searched_clicked_reserved = {3}
               /\ report.search_to_reserve_rate = <<25, 1>>)

(* C2: every conversion rate of the funnel scripts is 0, with no exception *)
(* raised and no NaN produced, when its denominator population is empty.   *)
C2_ZeroRateOnEmptyDenominator ==
    /\ report.status # "ZeroDivisionError"
    /\ report.script = "conversion_funnel_analysis" =>
           /\ report.status = "ok"
           /\ (S_ = {} => report.search_to_click_rate = Zero
                          /\ report.search_to_reserve_rate = Zero)
           /\ (S_ \cap C_ = {} => report.click_to_reserve_rate = Zero)
    /\ (report.script = "bot_filtered_analysis" /\ Loaded(db)) =>
           /\ report.status = "ok"
           /\ (report.locals.searchers = {} =>
                  report.search_to_click_rate = Zero
                  /\ report.search_to_reserve_rate = Zero)
           /\ (report.locals.searchers \cap report.locals.clickers = {} =>
                  report.click_to_reserve_rate = Zero)
    /\ report.script = "run_sql_analysis" =>
           /\ (report.total_searchers = 0 =>
                  report.search_to_view = Zero /\ report.overall = Zero)
           /\ (report.total_viewers = 0 => report.view_to_reserve = Zero)
           /\ (report.total_reservers = 0 => report.reserve_to_pay = Zero)

(* C3: the time-windowed funnel counts the reservation made at time T by   *)
(* actor X exactly when X has a search event with event_time <= T and a    *)
(* listing-view event with event_time <= T.                                *)
C3_TimeWindow ==
    (report.script = "conversion_funnel_analysis" /\ report.status = "ok") =>
        /\ report.locals.funnel_users \subseteq reservations
        /\ report.funnel_users = Cardinality(report.locals.funnel_users)
        /\ \A r \in reservations :
              r \in report.locals.funnel_users <=>
                  /\ \E s \in search_events : s.id = r.id /\ ~(s.t > r.t)
                  /\ \E c \in click_events : c.id = r.id /\ ~(c.t > r.t)

(* A reservation counted on the boundary (searched at the time of the      *)
(* reservation) next to a reservation of the same actor left out because   *)
(* the search came later.                                                  *)
C3_Witness ==
    /\ report.script = "conversion_funnel_analysis"
    /\ report.status = "ok"
    /\ \E r \in report.locals.funnel_users :
          /\ \A s \in search_events : s.id = r.id => s.t = r.t
          /\ \E q \in reservations \ report.locals.funnel_users :
                /\ q.id = r.id
                /\ \E c \in click_events : c.id = q.id /\ c.t <= q.t

(* The population of a category of the search events (distinct actors)   *)
(* and of a position bin of the listing views (views).                     *)
SearcherPopulation(c) ==
    Cardinality({x.id : x \in {e \in search_events : e.cat = c}})

BinLabels == {"1-5", "6-10", "11-15", "16-20", "20+"}

ViewsInBin(c) == {v \in click_events : position_bin(v.pos) = c}

ViewPopulation(c) == Cardinality(ViewsInBin(c))

RowCategories(rows) == {rows[i].category : i \in 1..Len(rows)}

ThresholdRespected(rows, population(_), labels, m) ==
    /\ RowCategories(rows) = {c \in labels : population(c) >= m}
    /\ Len(rows) = Cardinality(RowCategories(rows))

NoneQualifies(population(_), labels) ==
    \E m \in MinCounts : \A c \in labels : population(c) < m

(* C4: a segmented analysis called with minimum-population threshold m     *)
(* (analyze_by_category, analyze_non_conversion_by_category,               *)
(* analyze_never_clicked_by_category,                                      *)
(* analyze_listing_characteristic_by_category) returns no row for a        *)
(* category whose population is below m and one row for every non-missing  *)
(* category whose population is at least m; it fails with KeyError only    *)
(* when no category qualifies.                                             *)
C4_MinimumPopulation ==
    /\ report.script = "search_characteristics_analysis" =>
           /\ report.status \in {"ok", "KeyError"}
           /\ report.status = "ok" =>
                  ThresholdRespected(report.rows, SearcherPopulation, Cats,
                                     report.min_count)
           /\ report.status = "KeyError" => NoneQualifies(SearcherPopulation, Cats)
    /\ report.script = "non_converting_search_analysis" =>
           /\ report.status = "ok" =>
                  /\ ThresholdRespected(report.rows, SearcherPopulation, Cats,
                                        report.min_count)
                  /\ ThresholdRespected(report.never_clicked_rows,
                                        SearcherPopulation, Cats, report.min_count)
           /\ report.status = "KeyError" => NoneQualifies(SearcherPopulation, Cats)
    /\ report.script = "listing_conversion_analysis" =>
           /\ report.status = "ok" =>
                  ThresholdRespected(report.rows, ViewPopulation, BinLabels,
                                     report.min_views)
           /\ report.status = "KeyError" => NoneQualifies(ViewPopulation, BinLabels)

(* analyze_by_category with threshold 2 keeps one category and leaves out  *)
(* a category of one searcher and the rows with a missing category.        *)
C4_Witness ==
    /\ report.script = "search_characteristics_analysis"
    /\ report.status = "ok"
    /\ report.min_count = 2
    /\ Len(report.rows) = 1
    /\ \E c \in Cats : SearcherPopulation(c) = 1
    /\ NaN \in UniqueCats(search_events)

NonIncreasing(rows, key) ==
    \A i \in 1..(Len(rows) - 1) : RatLeq(rows[i + 1][key], rows[i][key])

NonDecreasing(rows, key) ==
    \A i \in 1..(Len(rows) - 1) : RatLeq(rows[i][key], rows[i + 1][key])

InPositionOrder(rows) ==
    /\ Len(rows) = TopPositions
    /\ \A i \in 1..Len(rows) : rows[i].characteristic = i

SortedDescendingReports ==
    /\ (report.script = "search_characteristics_analysis" /\ report.status = "ok") =>
           NonIncreasing(report.rows, "rate")
    /\ (report.script = "non_converting_search_analysis" /\ report.status = "ok") =>
           /\ NonIncreasing(report.rows, "rate")
           /\ NonIncreasing(report.never_clicked_rows, "rate")
    /\ (report.script = "conversion_by_channel_analysis" /\ report.status = "ok") =>
           NonIncreasing(report.rows, "search_to_reserve_rate")
    /\ (report.script = "listing_characteristics_conversion_analysis"
            /\ report.status = "ok") =>
           NonIncreasing(report.search_sort, "rate")
    /\ (report.script = "listing_conversion_analysis" /\ report.status = "ok") =>
           NonIncreasing(report.rows, "conversion_rate")

(* C5 as stated: every segmented conversion analysis returns its rows      *)
(* ordered by descending (non-increasing) conversion rate.                 *)
C5_AllDescending ==
    /\ SortedDescendingReports
    /\ (report.script = "search_sort_preference_chart" /\ report.status = "ok") =>
           NonIncreasing(report.rows, "rate")
    /\ (report.script = "listing_characteristics_conversion_analysis"
            /\ report.status = "ok") =>
           NonIncreasing(report.search_position, "conversion_rate")

(* C5: the by-category analyses, the per-channel analysis and              *)
(* analyze_by_search_sort return their rows in non-increasing order of the *)
(* rate; create_search_sort_preference_chart orders its rows by            *)
(* non-decreasing rate, and analyze_by_search_position returns one row per *)
(* position 1..10 in position order, whatever the rates.                   *)
C5_Ordering ==
    /\ SortedDescendingReports
    /\ (report.script = "search_sort_preference_chart" /\ report.status = "ok") =>
           NonDecreasing(report.rows, "rate")
    /\ (report.script = "listing_characteristics_conversion_analysis"
            /\ report.status = "ok") =>
           InPositionOrder(report.search_position)

(* analyze_by_category returns two categories of different rates, the      *)
(* higher one first.                                                       *)
C5_Witness ==
    /\ report.script = "search_characteristics_analysis"
    /\ report.status = "ok"
    /\ Len(report.rows) = 2
    /\ ~RatLeq(report.rows[1].rate, report.rows[2].rate)

IsShareOf(rate, population) ==
    \E n \in 0..population : rate = GuardedPct(n, population)

(* C6: every conversion rate reported by the scripts is a ratio of two     *)
(* distinct-actor-id set sizes; no reported conversion rate is computed    *)
(* from event (row) counts or from anything other than the input data.     *)
C6_RatesFromDistinctActors ==
    /\ (report.script = "search_characteristics_analysis" /\ report.status = "ok") =>
           \A i \in 1..Len(report.rows) :
               LET row == report.rows[i]
                   category_users == CategoryUsers(search_events, row.category)
               IN  row.rate =
                       GuardedPct(
                           Cardinality(category_users \cap report.locals.funnel_users),
                           Cardinality(category_users))
    /\ (report.script = "listing_conversion_analysis" /\ report.status = "ok") =>
           \A i \in 1..Len(report.rows) :
               LET row == report.rows[i]
                   views == ViewsInBin(row.category)
                   listings == {v.listing : v \in views}
               IN  row.conversion_rate =
                       GuardedPct(
                           Cardinality(UniqueIds(
                               {r \in reservations : r.listing \in listings})),
                           Cardinality(UniqueIds(views)))
    /\ (report.script = "search_position_conversion_rate_chart"
            /\ report.status = "ok") =>
           \A i \in 1..Len(report.rows) :
               IsShareOf(report.rows[i].conversion_rate, report.rows[i].total_clickers)
    /\ (report.script = "search_position_buckets_corrected_final"
            /\ report.status = "ok") =>
           \A i \in 1..Len(report.rows) :
               IsShareOf(report.rows[i].conversion_rate, report.rows[i].total_clickers)

(* C7: every click-to-reserve (view-to-reserve) rate and drop-off rate     *)
(* uses as its denominator the population of searchers who also clicked,   *)
(* not all searchers and not all clickers, and its numerator population is *)
(* a subset of that denominator population.                                *)
C7_StageDenominator ==
    /\ (report.script = "conversion_funnel_analysis" /\ report.status = "ok") =>
           report.click_to_reserve_rate =
               GuardedPct(Cardinality((S_ \cap C_) \cap R_), Cardinality(S_ \cap C_))
    /\ (report.script = "bot_filtered_analysis" /\ report.status = "ok") =>
           LET l == report.locals
           IN  report.click_to_reserve_rate =
                   GuardedPct(
                       Cardinality((l.searchers \cap l.clickers) \cap l.reservers),
                       Cardinality(l.searchers \cap l.clickers))
    /\ (report.script = "non_converting_search_analysis" /\ report.status = "ok") =>
           /\ report.locals.drop_off_population = S_ \cap C_
           /\ report.locals.clickers_who_never_reserved
                  \subseteq report.locals.drop_off_population
           /\ report.click_to_reserve_drop_off_rate =
                  GuardedPct(Cardinality((S_ \cap C_) \ R_), Cardinality(S_ \cap C_))
    /\ report.script = "funnel_analysis" =>
           LET searchers == UniqueIds({e \in search_events : ~e.bot})
               viewers == searchers \cap UniqueIds({e \in click_events : ~e.bot})
           IN  /\ report.view_to_reserve =
                      GuardedPct(Cardinality(viewers \cap R_), Cardinality(viewers))
               /\ report.dropped_after_viewing = Cardinality(viewers \ R_)

(* C8: for non-empty inputs, every set-based rate reported by              *)
(* analyze_search_to_reservation_conversion and by                         *)
(* analyze_conversion_by_channel lies within [0, 100].                     *)
C8_RatesInRange ==
    /\ (report.script = "conversion_funnel_analysis" /\ S_ # {}) =>
           /\ report.status = "ok"
           /\ InRange(report.search_to_click_rate)
           /\ InRange(report.click_to_reserve_rate)
           /\ InRange(report.search_to_reserve_rate)
    /\ (report.script = "conversion_by_channel_analysis" /\ S_ # {}) =>
           /\ report.status = "ok"
           /\ \A i \in 1..Len(report.rows) :
                 /\ InRange(report.rows[i].search_to_click_rate)
                 /\ InRange(report.rows[i].click_to_reserve_rate)
                 /\ InRange(report.rows[i].search_to_reserve_rate)

C8_Witness ==
    /\ report.script = "conversion_funnel_analysis"
    /\ report.status = "ok"
    /\ C_ # {} /\ R_ # {}
    /\ report.search_to_click_rate = <<50, 1>>
    /\ report.click_to_reserve_rate = Hundred
    /\ report.search_to_reserve_rate = <<50, 1>>

SixOrders(A, B, D) ==
    {(A \cap B) \cap D, (A \cap D) \cap B, (B \cap A) \cap D,
     (B \cap D) \cap A, (D \cap A) \cap B, (D \cap B) \cap A}

(* C9: the full-funnel user set does not depend on the order of the        *)
(* intersections: each script's funnel set is the result of all six orders *)
(* and equals conversion_funnel_analysis's searched_clicked_reserved on    *)
(* the same inputs.                                                        *)
C9_OrderIndependent ==
    /\ (report.script = "conversion_funnel_analysis" /\ report.status = "ok") =>
           SixOrders(S_, C_, R_) = {report.locals.searched_clicked_reserved}
    /\ (report.script = "bot_filtered_analysis" /\ report.status = "ok") =>
           LET l == report.locals
           IN  /\ SixOrders(l.searchers, l.clickers, l.reservers) = {l.funnel_users}
               /\ l.funnel_users =
                      analyze_search_to_reservation_conversion(
                          {e \in search_events : e.id \in l.searchers},
                          {e \in click_events : e.id \in l.clickers},
                          reservations).locals.searched_clicked_reserved
    /\ (report.script = "non_converting_search_analysis" /\ report.status = "ok") =>
           SixOrders(S_, C_, R_) = {report.locals.funnel_users}

C9_Witness ==
    /\ report.script = "bot_filtered_analysis"
    /\ report.status = "ok"
    /\ report.locals.funnel_users # {}
    /\ report.locals.searchers # S_

(* C10: in both SQL prompts, a query whose execution raises is caught      *)
(* inside execute_query and surfaced as printed error text; the prompt     *)
(* loop then continues and accepts the next input with the connection      *)
(* still open.                                                             *)
C10_QueryErrorSurfaced ==
    (/\ last_input.kind = "line"
     /\ IsQuery(strip(last_input.text))
     /\ SqlOutcome(db, strip(last_input.text)) # "rows") =>
        /\ printed = "error"
        /\ pc = "reading"
        /\ conn = "open"
        /\ closes = 0
        /\ ENABLED (InteractiveSqlIteration \/ SimpleSqlIteration)

(* simple_sql started on a cache file that holds no table: the second      *)
(* query of the session, a SELECT, fails and is reported.                  *)
C10_Witness ==
    /\ variant = "simple_sql"
    /\ db = "empty"
    /\ executed = 2
    /\ last_input = LineRead(<<" ", SelectText>>)
    /\ printed = "error"
    /\ conn = "open"

C12_RunIndependentOfCache ==
    \A d \in DbStates :
        /\ report.script = "bot_filtered_analysis" =>
               report = analyze_conversion_without_bots(
                            Connect(d), search_events, click_events, reservations)
        /\ report.script = "day_of_week_conversion_chart" =>
               report = create_day_of_week_conversion_chart(
                            Connect(d), search_events, click_events, reservations)
        /\ report.script = "debug_boolean" =>
               report = debug_boolean(Connect(d), table_copies, search_events)
        /\ (report.script = "create_charts" /\ report.status = "ok") =>
               report.funnel = create_conversion_funnel_chart(
                                   create_charts_create_database(d),
                                   search_events, click_events, reservations)

(* The scripts that query marketplace_analysis.db. *)
CacheQueryingScripts ==
    {"funnel_analysis", "run_sql_analysis", "conversion_analysis",
     "create_charts", "day_of_week_conversion_chart", "bot_filtered_analysis",
     "debug_boolean"}

(* C13: every script run rebuilds the cache tables from the CSV snapshots  *)
(* before it queries them: the run that produced a report of a querying    *)
(* script has loaded the tables itself, so no query reads table contents   *)
(* left by an earlier run.                                                 *)
C13_RebuiltBeforeQuery ==
    report.script \in CacheQueryingScripts => rebuilt # "no"

AlwaysReloadingScripts == {"funnel_analysis", "run_sql_analysis", "conversion_analysis"}

(* C14: cache loading is idempotent: after any number of runs in a row of  *)
(* the always-reloading loaders (funnel_analysis.py, run_sql_analysis.py,  *)
(* conversion_analysis.py) on the same CSV files, every table holds each   *)
(* row of its file exactly once; a load on top of a load changes nothing.  *)
C14_LoadIdempotent ==
    /\ report.script \in AlwaysReloadingScripts =>
           /\ rebuilt \in {"created", "replaced"}
           /\ Loaded(db)
           /\ table_copies = 1
    /\ Loaded(db) <=> table_copies = 1
    /\ ~Loaded(db) <=> table_copies = 0
    /\ drop_create_insert(drop_create_insert(table_copies)) =
           drop_create_insert(table_copies)
    /\ to_sql_replace(to_sql_replace(table_copies)) = to_sql_replace(table_copies)
    /\ to_sql_replace(drop_create_insert(table_copies)) = to_sql_replace(table_copies)

(* conversion_analysis.py has loaded the tables over the tables an earlier *)
(* run had loaded.                                                         *)
C14_Witness ==
    /\ report.script = "conversion_analysis"
    /\ rebuilt = "replaced"
    /\ search_events # {}
    /\ table_copies = 1

(* C15: the two spellings of the bot filter are not equivalent.  On every  *)
(* cache a loader of the repository has built from a file with a non-bot   *)
(* search, is_bot = 'False' and is_bot = 0 select different rows of        *)
(* search_events: the csv loader's table answers only the text form, the   *)
(* pandas loader's table only the numeric form.  The non-bot population of *)
(* a script therefore depends on the loader that built the cache.          *)
C15_FilterFormsDiffer ==
    LET non_bot == {s \in search_events : ~s.bot}
    IN  /\ (Loaded(db) /\ non_bot # {}) =>
               /\ WhereIsBotFalseText(db, search_events) #
                      WhereIsBotZero(db, search_events)
               /\ db = "csv" =>
                      /\ WhereIsBotFalseText(db, search_events) = non_bot
                      /\ WhereIsBotZero(db, search_events) = {}
               /\ db = "pandas" =>
                      /\ WhereIsBotFalseText(db, search_events) = {}
                      /\ WhereIsBotZero(db, search_events) = non_bot
        /\ (report.script = "debug_boolean" /\ report.status = "ok") =>
               /\ non_bot # {} => report.count_zero # report.count_false_text
               /\ db = "csv" =>
                      /\ report.count_zero = 0
                      /\ report.count_false_text = Cardinality(non_bot)
               /\ db = "pandas" =>
                      /\ report.count_zero = Cardinality(non_bot)
                      /\ report.count_false_text = 0
        /\ (report.script = "bot_filtered_analysis" /\ report.status = "ok") =>
               /\ db = "csv"
               /\ report.locals.searchers = UniqueIds(non_bot)
        /\ (report.script = "bot_filtered_analysis" /\ db = "pandas") =>
               report.status = "ZeroDivisionError"

(* debug_boolean.py on a cache built by the pandas loader from a file with *)
(* two non-bot searches and a bot search: 2 rows for is_bot = 0, none for  *)
(* is_bot = 'False', 3 rows without the filter.                            *)
C15_Witness ==
    /\ report.script = "debug_boolean"
    /\ db = "pandas"
    /\ report.count_zero = 2
    /\ report.count_false_text = 0
    /\ report.count_all = 3

(* C16: in conversion_analysis.py, once run_sql_analysis has gone through  *)
(* its five queries, results has the key query_i exactly for the queries   *)
(* that succeeded; a failing query does not keep a later query from        *)
(* running; create_visualizations and generate_business_recommendations    *)
(* read only keys that are present.                                        *)
C16_ResultKeys ==
    (report.script = "conversion_analysis" /\ report.status # "FileNotFoundError") =>
        /\ report.attempted = QueryIndexes
        /\ \A i \in QueryIndexes :
               i \in DOMAIN report.results <=> i \notin report.errors
        /\ \A e \in report.errors :
               \A i \in QueryIndexes : i > e => i \in report.attempted
        /\ report.read_by_charts \subseteq DOMAIN report.results
        /\ report.read_by_recommendations \subseteq DOMAIN report.results
        /\ report.status \in {"ok", "TypeError"}

(* Queries 1 and 3 fail: the charts read query_0, query_2 and query_4, the *)
(* recommendations query_0 and query_4.                                    *)
C16_Witness ==
    /\ report.script = "conversion_analysis"
    /\ report.status = "ok"
    /\ report.errors = {1, 3}
    /\ report.read_by_charts = {0, 2, 4}
    /\ report.read_by_recommendations = {0, 4}

(* The lines of the prompt sessions by what the loop is to do with them. *)
QuitLines == {<<"q", "u", "i", "t">>, <<" ", "E", "x", "i", "t", " ">>, <<"Q">>}
CommandLines == {<<"H", "e", "l", "p">>, <<"t", "a", "b", "l", "e", "s">>}
EmptyLines == {<<>>, <<" ">>}
QueryLines == {<<" ", SelectText>>, <<CreateText>>, <<"q", "u", "i", "t", ";">>}

(* The input just read ends the session. *)
EndsSession(input) ==
    \/ input.kind = "KeyboardInterrupt"
    \/ input.kind = "line" /\ input.text \in QuitLines

(* C17: in both SQL prompts, from any state of the loop, the input quit,   *)
(* exit or q (in any case, surrounded by whitespace or not) or a keyboard  *)
(* interrupt ends the loop: the iteration that reads it executes no query  *)
(* and closes the connection; the connection is closed exactly once, and   *)
(* after the loop has ended the only step left is the exit of the process, *)
(* so no query is executed afterwards.                                     *)
C17_QuitEndsLoop ==
    /\ [][(pc = "reading" /\ EndsSession(last_input')) =>
              /\ pc' = "done"
              /\ printed' = "goodbye"
              /\ conn' = "closed"
              /\ closes' = 1
              /\ executed' = executed
              /\ applied' = applied]_vars
    /\ [][pc = "done" =>
              /\ pc' = "not_started"
              /\ conn' = "none"
              /\ executed' = 0]_vars
    /\ [](pc = "done" => (conn = "closed" /\ closes = 1 /\ EndsSession(last_input)))
    /\ [](pc = "reading" => (conn = "open" /\ closes = 0))

(* interactive_sql.py has run one query and then read " Exit ". *)
C17_Witness ==
    /\ variant = "interactive_sql"
    /\ pc = "done"
    /\ last_input = LineRead(<<" ", "E", "x", "i", "t", " ">>)
    /\ executed = 1
    /\ conn = "closed"
    /\ closes = 1

(* C18: in both SQL prompts, help, tables, quit, exit, q (in any case) and *)
(* the empty line are never passed to execute_query; every other line is   *)
(* passed to execute_query exactly once.                                   *)
C18_OnlyQueriesExecuted ==
    /\ [][pc = "reading" =>
              IF last_input'.kind = "line" /\ last_input'.text \in QueryLines
              THEN executed' = executed + 1
              ELSE executed' = executed /\ applied' = applied]_vars
    /\ [](/\ QuitLines \cup CommandLines \cup EmptyLines \cup QueryLines = Lines
          /\ QueryLines \cap (QuitLines \cup CommandLines \cup EmptyLines) = {})

(* simple_sql.py has read "quit;" as its second query: it is not the quit  *)
(* command, so it went to execute_query and came back as an error.         *)
C18_Witness ==
    /\ variant = "simple_sql"
    /\ pc = "reading"
    /\ last_input = LineRead(<<"q", "u", "i", "t", ";">>)
    /\ executed = 2
    /\ printed = "error"

(* C19: both SQL prompt loops terminate when their input stream ends: once *)
(* input() can no longer return a line, the loop exits and the connection  *)
(* is closed, rather than repeating forever.  (An iteration at the end of  *)
(* input prints the same error and leaves every variable as it is, so the  *)
(* loop that repeats forever is the behaviour that stays in that state.)   *)
C19_TerminatesAtEndOfInput ==
    (pc = "reading" /\ stdin = "ended") ~> (pc = "done" /\ conn = "closed")

(* C20: in simple_sql.py, a statement reported as an error (execute_query  *)
(* returned (None, message)) had no effect on the database: no statement   *)
(* of the session has been applied and then reported as failed.            *)
C20_ErrorMeansNoEffect ==
    (variant = "simple_sql" /\ printed = "error") => applied = 0

(* C21: after any sequence of runs of create_database() of simple_sql.py,  *)
(* create_charts.py and interactive_sql.py, runs that failed on a missing  *)
(* CSV file included, a run that takes the 'Database already exists!'      *)
(* branch finds all the tables there with the full contents of their CSV   *)
(* files.                                                                  *)
C21_ExistingCacheIsComplete ==
    /\ (variant \in {"simple_sql", "interactive_sql"} /\ rebuilt = "no") =>
           /\ Loaded(db)
           /\ table_copies = 1
    /\ (report.script = "create_charts" /\ report.status = "ok" /\ rebuilt = "no") =>
           /\ Loaded(db)
           /\ table_copies = 1

(* C22: every reservation counted by the detailed (time-windowed) funnel   *)
(* followed the order searched -> clicked -> reserved: its actor has a     *)
(* search at or before some listing view that is itself at or before the   *)
(* reservation time.                                                       *)
C22_SearchedThenClickedThenReserved ==
    (report.script = "conversion_funnel_analysis" /\ report.status = "ok") =>
        \A r \in report.locals.funnel_users :
            \E s \in search_events, c \in click_events :
                /\ s.id = r.id
                /\ c.id = r.id
                /\ s.t <= c.t
                /\ c.t <= r.t

(* The reservation has a search and a listing view of its actor at or      *)
(* before its time.                                                        *)
Qualifies(r) ==
    /\ \E s \in search_events : s.id = r.id /\ s.t <= r.t
    /\ \E c \in click_events : c.id = r.id /\ c.t <= r.t

(* C23: in analyze_search_to_reservation_conversion the time-windowed      *)
(* count funnel_users counts reservations, not distinct users: it is at    *)
(* most the number of reservation rows, an actor with k qualifying         *)
(* reservations contributes k, and the actors of the counted reservations  *)
(* are among the set-based searched_clicked_reserved.                      *)
C23_FunnelUsersCountsReservations ==
    (report.script = "conversion_funnel_analysis" /\ report.status = "ok") =>
        /\ report.funnel_users <= Cardinality(reservations)
        /\ report.funnel_users = Cardinality({r \in reservations : Qualifies(r)})
        /\ report.funnel_users = Cardinality(report.locals.funnel_users)
        /\ \A actor \in Ids :
               Cardinality({r \in report.locals.funnel_users : r.id = actor}) =
                   Cardinality({r \in reservations : r.id = actor /\ Qualifies(r)})
        /\ UniqueIds(report.locals.funnel_users) \subseteq
               report.locals.searched_clicked_reserved

(* One actor with two qualifying reservations: funnel_users is 2 for one   *)
(* distinct user.                                                          *)
C23_Witness ==
    /\ report.script = "conversion_funnel_analysis"
    /\ report.status = "ok"
    /\ report.funnel_users = 2
    /\ report.searched_clicked_reserved = 1
    /\ Cardinality(UniqueIds(report.locals.funnel_users)) = 1

(* C24: in funnel_analysis.py and in create_conversion_funnel_chart the    *)
(* reported stage counts are non-increasing along the funnel, searchers >= *)
(* viewers >= reservers >= payers, for every input, so every printed       *)
(* drop-off count is non-negative and every stage rate is at most 100.     *)
C24_StagesNonIncreasing ==
    /\ report.script = "funnel_analysis" =>
           /\ report.searchers >= report.viewers
           /\ report.viewers >= report.reservers
           /\ report.reservers >= report.payers
           /\ report.dropped_after_searching >= 0
           /\ report.dropped_after_viewing >= 0
           /\ report.dropped_after_reserving >= 0
           /\ \A rate \in {report.search_to_view, report.view_to_reserve,
                           report.reserve_to_pay, report.overall} :
                  RatLeq(rate, Hundred)
    /\ (/\ report.script = "create_charts"
        /\ report.status = "ok"
        /\ report.funnel.saved) =>
           /\ report.funnel.searchers >= report.funnel.viewers
           /\ report.funnel.viewers >= report.funnel.reservers
           /\ report.funnel.reservers >= report.funnel.payers
           /\ \A k \in 1..Len(report.funnel.conversion_rates) :
                  RatLeq(report.funnel.conversion_rates[k], Hundred)

(* C25: in analyze_conversion_by_channel (and in the same loop of          *)
(* analyze_conversion_by_source_channel), for every channel row:           *)
(* total_clickers equals searched_and_clicked, total_reservers is at least *)
(* searched_clicked_reserved, and searched_clicked_reserved <=             *)
(* searched_and_clicked <= total_searchers.  (The row of the missing       *)
(* channel has no searcher: a comparison with NaN selects no search.)      *)
C25_ChannelRowCounts ==
    (report.script = "conversion_by_channel_analysis" /\ report.status = "ok") =>
        \A i \in 1..Len(report.rows) :
            LET row == report.rows[i]
                users == {s.id : s \in {x \in search_events :
                                            x.cat = row.channel /\ x.cat # NaN}}
            IN  /\ row.total_clickers = row.searched_and_clicked
                /\ row.total_reservers >= row.searched_clicked_reserved
                /\ row.searched_clicked_reserved <= row.searched_and_clicked
                /\ row.searched_and_clicked <= row.total_searchers
                /\ row.total_searchers = Cardinality(users)
                /\ row.total_clickers = Cardinality(users \cap C_)
                /\ row.total_reservers = Cardinality(users \cap R_)
                /\ row.searched_clicked_reserved = Cardinality((users \cap C_) \cap R_)

(* A channel with two searchers: one viewed a listing, the other reserved  *)
(* without viewing; a third actor viewed a listing without searching.      *)
C25_Witness ==
    /\ report.script = "conversion_by_channel_analysis"
    /\ report.status = "ok"
    /\ \E i \in 1..Len(report.rows) :
           /\ report.rows[i].total_searchers = 2
           /\ report.rows[i].total_clickers = 1
           /\ report.rows[i].total_reservers = 1
           /\ report.rows[i].searched_clicked_reserved = 0

====
